---- MODULE Spec2Model ----
(***************************************************************************)
(* State-machine model of steamdeck.py: the report decoder                 *)
(* (decode_steamdeck_report), the two source readers (_read_device_events, *)
(* _read_hidraw), the aggregator (_process_inputs), the dispatcher         *)
(* (add_listener / on_change) and the lifecycle controller (start).        *)
(*                                                                         *)
(* One action is one run of a coroutine between two awaits: asyncio runs   *)
(* the tasks on one thread, so the code between two awaits is atomic.      *)
(***************************************************************************)
EXTENDS Integers, Sequences, FiniteSets, TLC

(***************************************************************************)
(* Python values.  bool is a subclass of int: True == 1 and False == 0, and *)
(* isinstance(True, (int, float)) holds.  A value is its numeric value n    *)
(* and whether it is a bool.                                                *)
(***************************************************************************)
PyBool(b) == [isbool |-> TRUE, n |-> IF b THEN 1 ELSE 0]

PyInt(i) == [isbool |-> FALSE, n |-> i]

\* a comparison that tells a bool from an int of the same value
PyEqTyped(a, b) == a = b

\* Python's == / != on bools and ints compares the numeric values
PyEq(a, b) == a.n = b.n

Abs(x) == IF x < 0 THEN -x ELSE x

(***************************************************************************)
(* A dict is the sequence of its items in insertion order.                 *)
(***************************************************************************)
EmptyDict == <<>>

DictKeys(d) == {d[i].k : i \in 1..Len(d)}

DictHas(d, key) == \E i \in 1..Len(d) : d[i].k = key

DictIndex(d, key) == CHOOSE i \in 1..Len(d) : d[i].k = key

\* d.get(key, default)
DictGet(d, key, default) == IF DictHas(d, key) THEN d[DictIndex(d, key)].v ELSE default

\* d[key] = v : an existing key keeps its position, a new key is appended
DictSet(d, key, val) ==
    IF DictHas(d, key)
    THEN [d EXCEPT ![DictIndex(d, key)] = [k |-> key, v |-> val]]
    ELSE Append(d, [k |-> key, v |-> val])

RECURSIVE DictMergeFrom(_, _, _)
DictMergeFrom(i, acc, d) ==
    IF i > Len(d) THEN acc
    ELSE DictMergeFrom(i + 1, DictSet(acc, d[i].k, d[i].v), d)

\* a view that leaves the second dict out
DictMergeFirstOnly(a, b) == a

\* {**a, **b}
DictMerge(a, b) == DictMergeFrom(1, a, b)

(***************************************************************************)
(* Raw reports: a report is the sequence of its bytes; data[i] of the code *)
(* (0-based) is Byte(data, i).                                             *)
(***************************************************************************)
Byte(data, i) == data[i + 1]

\* a wrong mask: the bits at and above `bit` instead of the one bit
BitSetFromBit(byte, bit) == (byte \div (2 ^ bit)) # 0

\* (byte & (1 << bit)) != 0
BitSet(byte, bit) == (byte \div (2 ^ bit)) % 2 = 1

\* struct.unpack('<h', data[off:off+2])[0]: little-endian signed 16 bit
UnpackH(data, off) ==
    LET u == Byte(data, off) + 256 * Byte(data, off + 1)
    IN  IF u >= 32768 THEN u - 65536 ELSE u

BitField(key, off, bit) == [key |-> key, kind |-> "bit", off |-> off, bit |-> bit]

AxisField(key, off) == [key |-> key, kind |-> "axis", off |-> off, bit |-> 0]

\* the assignments of decode_steamdeck_report, in the order the code runs them
Layout ==
    << BitField("R2", 8, 0), BitField("L2", 8, 1), BitField("R1", 8, 2),
       BitField("L1", 8, 3), BitField("Y", 8, 4), BitField("B", 8, 5),
       BitField("X", 8, 6), BitField("A", 8, 7),
       BitField("UP", 9, 0), BitField("RIGHT", 9, 1), BitField("LEFT", 9, 2),
       BitField("DOWN", 9, 3), BitField("WINDOW", 9, 4), BitField("STEAM", 9, 5),
       BitField("MENU", 9, 6), BitField("L5", 9, 7),
       BitField("R5", 10, 0), BitField("LEFT_PAD_PRESS", 10, 1),
       BitField("RIGHT_PAD_PRESS", 10, 2), BitField("LEFT_PAD_TOUCH", 10, 3),
       BitField("RIGHT_PAD_TOUCH", 10, 4), BitField("LEFT_STICK_PRESS", 10, 6),
       BitField("RIGHT_STICK_PRESS", 11, 2),
       BitField("L4", 13, 1), BitField("R4", 13, 2),
       BitField("LEFT_STICK_TOUCH", 13, 6), BitField("RIGHT_STICK_TOUCH", 13, 7),
       BitField("MORE", 14, 2),
       AxisField("LEFT_STICK_X", 48), AxisField("LEFT_STICK_Y", 50),
       AxisField("RIGHT_STICK_X", 52), AxisField("RIGHT_STICK_Y", 54),
       AxisField("LEFT_PAD_X", 16), AxisField("LEFT_PAD_Y", 18),
       AxisField("RIGHT_PAD_X", 20), AxisField("RIGHT_PAD_Y", 22) >>

\* data[off] raises IndexError past the end; struct.unpack raises struct.error
\* unless the slice data[off:off+2] holds two bytes
FieldReadable(f, data) ==
    IF f.kind = "bit" THEN f.off < Len(data) ELSE f.off + 2 <= Len(data)

\* a digital field read without its mask: true when the byte is not zero
FieldValueWholeByte(f, data) ==
    IF f.kind = "bit"
    THEN PyBool(Byte(data, f.off) # 0)
    ELSE PyInt(UnpackH(data, f.off))

FieldValue(f, data) ==
    IF f.kind = "bit"
    THEN PyBool(BitSet(Byte(data, f.off), f.bit))
    ELSE PyInt(UnpackH(data, f.off))

\* the assignments 1..i of the function body: the dict after them, and whether
\* one of them raised (the assignments after it are not run)
DecodeUpTo(n, data, buttons_state) ==
    LET after[i \in 0..n] ==
            IF i = 0 THEN [bs |-> buttons_state, raised |-> FALSE]
            ELSE LET before == after[i - 1]
                 IN  IF before.raised \/ ~FieldReadable(Layout[i], data)
                     THEN [bs |-> before.bs, raised |-> TRUE]
                     ELSE [bs |-> DictSet(before.bs, Layout[i].key,
                                          FieldValue(Layout[i], data)),
                           raised |-> FALSE]
    IN  after[n]

\* decode_steamdeck_report(data, buttons_state): the dict as the call leaves it,
\* and whether the call raised
decode_steamdeck_report(data, buttons_state) ==
    IF Len(data) < 12
    THEN [bs |-> buttons_state, raised |-> FALSE]
    ELSE DecodeUpTo(Len(Layout), data, buttons_state)

(***************************************************************************)
(* The aggregator's change detection (_process_inputs) and the dispatcher  *)
(* (on_change).  Listeners are opaque callbacks: one either returns ("ok") *)
(* or raises ("raise").                                                    *)
(***************************************************************************)
ListenerKinds == {"ok", "raise"}

IsStick(key) == key \in {"LEFT_STICK_X", "LEFT_STICK_Y", "RIGHT_STICK_X", "RIGHT_STICK_Y"}

IsPad(key) == key \in {"LEFT_PAD_X", "LEFT_PAD_Y", "RIGHT_PAD_X", "RIGHT_PAD_Y"}

\* a wrong default: 1 (true) instead of 0 (false)
DefaultOne(val2) == PyInt(1)

\* default = 0 if isinstance(val2, (int, float)) else False: every value of a
\* bucket is a bool or an int, and a bool is an int, so the default is 0
Default(val2) == PyInt(0)

\* diff = abs(val2 - val1) unless val2 is a bool
Diff(val1, val2) == IF ~val2.isbool THEN Abs(val2.n - val1.n) ELSE 0

\* the thresholds compared with >= instead of >
TriggerEventAtThreshold(key, val1, val2) ==
    /\ ~PyEq(val1, val2)
    /\ \/ ~IsStick(key) /\ ~IsPad(key)
       \/ IsStick(key) /\ Diff(val1, val2) >= 200
       \/ IsPad(key) /\ Diff(val1, val2) >= 100

\* the pad threshold applied to every field that is not a stick axis
TriggerEventThresholdAll(key, val1, val2) ==
    /\ ~PyEq(val1, val2)
    /\ \/ IsStick(key) /\ Diff(val1, val2) > 200
       \/ ~IsStick(key) /\ Diff(val1, val2) > 100

\* the pad threshold applied to the stick axes too
TriggerEventOneThreshold(key, val1, val2) ==
    /\ ~PyEq(val1, val2)
    /\ \/ ~IsStick(key) /\ ~IsPad(key)
       \/ (IsStick(key) \/ IsPad(key)) /\ Diff(val1, val2) > 100

\* the two conditions under which _process_inputs calls on_change
TriggerEvent(key, val1, val2) ==
    /\ ~PyEq(val1, val2)
    /\ \/ ~IsStick(key) /\ ~IsPad(key)
       \/ IsStick(key) /\ Diff(val1, val2) > 200
       \/ IsPad(key) /\ Diff(val1, val2) > 100

\* one callback(key, value) call, as the log records it: the listener's index,
\* the arguments, and what prev_state holds for the key during the call
CallRecord(i, key, value, prev_state) ==
    [cb |-> i, key |-> key, value |-> value,
     annHad |-> DictHas(prev_state, key),
     ann |-> DictGet(prev_state, key, PyInt(0))]

RECURSIVE CallFrom(_, _, _, _, _, _)
CallFrom(i, lst, key, value, prev_state, calls) ==
    IF i > Len(lst) THEN [calls |-> calls, raised |-> FALSE]
    ELSE LET c == Append(calls, CallRecord(i, key, value, prev_state))
         IN  IF lst[i] = "raise"
             THEN [calls |-> c, raised |-> TRUE]
             ELSE CallFrom(i + 1, lst, key, value, prev_state, c)

\* on_change(key, value): the callbacks run in list order; a callback that
\* raises ends the loop, and the exception leaves on_change
on_change(lst, key, value, prev_state, calls) ==
    CallFrom(1, lst, key, value, prev_state, calls)

\* what one pass of the for loop of _process_inputs records about a field
EvalRecord(key, val2, delivered, seen, fired) ==
    [key |-> key, curr |-> val2,
     had |-> DictHas(delivered, key),
     last |-> DictGet(delivered, key, PyInt(0)),
     first |-> key \notin seen,
     fired |-> fired]

\* the body of the for loop for one item of the merged view, from the state st
\* the items before it left
ProcessItem(key, val2, lst, seen, st) ==
    LET val1 == DictGet(st.prev_state, key, Default(val2))
        fire == TriggerEvent(key, val1, val2)
        ev   == Append(st.evals, EvalRecord(key, val2, st.delivered, seen, fire))
    IN  IF ~fire
        THEN [st EXCEPT !.evals = ev]
        ELSE LET r  == on_change(lst, key, val2, st.prev_state, st.calls)
                 s1 == [st EXCEPT !.evals = ev,
                                  !.calls = r.calls,
                                  !.fired = Append(@, [key |-> key, value |-> val2]),
                                  !.delivered = DictSet(@, key, val2)]
             IN  IF r.raised
                 THEN [s1 EXCEPT !.raised = TRUE]
                 ELSE [s1 EXCEPT !.prev_state = DictSet(@, key, val2)]

\* the for loop over all_buttons_state.items(): an exception ends it
ProcessItems(all_buttons_state, lst, seen, st0) ==
    LET after[i \in 0..Len(all_buttons_state)] ==
            IF i = 0 THEN st0
            ELSE LET before == after[i - 1]
                 IN  IF before.raised THEN before
                     ELSE ProcessItem(all_buttons_state[i].k, all_buttons_state[i].v,
                                      lst, seen, before)
    IN  after[Len(all_buttons_state)]

\* one iteration of the while loop of _process_inputs, up to its sleep
process_inputs(general, pwr, lst, prev, deliv, seen) ==
    ProcessItems(DictMerge(general, pwr), lst, seen,
                 [prev_state |-> prev, delivered |-> deliv, calls |-> <<>>,
                  evals |-> <<>>, fired |-> <<>>, raised |-> FALSE])

(***************************************************************************)
(* The environment: what the devices deliver.  A raw HID device delivers a *)
(* script of reports (an empty report is a read that timed out), an input  *)
(* device a script of events.                                              *)
(***************************************************************************)
E5 == "/dev/input/event5"

E2 == "/dev/input/event2"

E8 == "/dev/input/event8"

E14 == "/dev/input/event14"

DEVICE_PATHS == <<E5, E2, E8, E14>>

PWR_DEVICE_PATH == E5

\* the two coroutines start() adds after the device readers
HID == "_read_hidraw"

AGG == "_process_inputs"

\* a report of len bytes, zero but for the bytes ov gives (offset :> byte)
Report(len, ov) == [i \in 1..len |-> IF (i - 1) \in DOMAIN ov THEN ov[i - 1] ELSE 0]

\* the two bytes of a signed 16-bit value v at offset off, little-endian
AxisBytes(off, v) ==
    LET u == IF v < 0 THEN v + 65536 ELSE v
    IN  (off :> (u % 256)) @@ ((off + 1) :> (u \div 256))

\* a full report with LEFT_STICK_X = lsx, LEFT_PAD_X = lpx, RIGHT_STICK_Y = rsy
Axes(lsx, lpx, rsy) ==
    Report(64, AxisBytes(48, lsx) @@ AxisBytes(16, lpx) @@ AxisBytes(54, rsy))

\* a report of len bytes with byte 8 = b8 and byte 9 = b9
Buttons(len, b8, b9) == Report(len, (8 :> b8) @@ (9 :> b9))

KeyEvent(code, keystate) == [type |-> "EV_KEY", code |-> code, keystate |-> keystate]

AbsEvent(code, value) == [type |-> "EV_ABS", code |-> code, keystate |-> value]

NoEvents == [p \in {E5, E2, E8, E14} |-> <<>>]

Scenario(paths, hid, keys, faulty, cancellable) ==
    [paths |-> paths, hid |-> hid, keys |-> keys, faulty |-> faulty,
     cancellable |-> cancellable]

\* the runs explored: the constructor's device_paths argument (<<>> for None),
\* the scripts of the devices, whether device calls may fail, and whether the run
\* may be cancelled from outside
Scenarios ==
    { Scenario(<<E5>>,
               << Axes(50, 100, 0), Axes(90, 101, 0), Axes(150, 101, 0),
                  Axes(210, 150, -201), Axes(250, 0, -201) >>,
               NoEvents, FALSE, FALSE),
      Scenario(<<E5>>,
               << Buttons(64, 0, 0), Buttons(64, 128, 0), Buttons(64, 0, 0) >>,
               [NoEvents EXCEPT ![E5] = << KeyEvent(116, 1), KeyEvent(116, 0) >>],
               FALSE, FALSE),
      Scenario(<<E5>>,
               << Buttons(64, 0, 1), Buttons(64, 128, 1) >>,
               [NoEvents EXCEPT ![E5] = << KeyEvent(114, 2), AbsEvent(116, 1),
                                           KeyEvent(30, 1) >>],
               FALSE, FALSE),
      Scenario(<<>>,
               << Buttons(64, 128, 0) >>,
               [NoEvents EXCEPT ![E5] = << KeyEvent(115, 1) >>,
                                ![E2] = << KeyEvent(116, 1) >>],
               FALSE, FALSE),
      Scenario(<<E5>>,
               << Buttons(64, 0, 0), <<>>, Buttons(8, 128, 0), Buttons(12, 128, 0),
                  Buttons(64, 0, 0) >>,
               NoEvents, FALSE, FALSE),
      Scenario(<<E5>>,
               << Buttons(15, 32, 0), Buttons(64, 0, 0) >>,
               NoEvents, FALSE, FALSE),
      Scenario(<<E5>>,
               << Buttons(64, 128, 0) >>,
               [NoEvents EXCEPT ![E5] = << KeyEvent(116, 1) >>],
               TRUE, FALSE),
      Scenario(<<E5, E2>>, << >>, NoEvents, TRUE, TRUE),
      Scenario(<<E2>>,
               << Buttons(64, 128, 0) >>,
               [NoEvents EXCEPT ![E2] = << KeyEvent(116, 1), KeyEvent(114, 1) >>],
               FALSE, FALSE) }

\* the most listeners registered before the run
MaxListeners == 2

VARIABLES
    device_paths,            \* self.device_paths
    general_buttons_state,   \* self.general_buttons_state
    pwr_buttons_state,       \* self.pwr_buttons_state
    listeners,               \* self.listeners
    devices,                 \* self.devices
    prev_state,              \* the local prev_state of _process_inputs
    startPc,                 \* start(): "idle", "running", "exited"
    pc,                      \* each task of self.tasks: "new", "running", "done"
    dev,                     \* each reader's local device: "none", "open", "grabbed"
    h,                       \* the local h of _read_hidraw: "none", "open", "closed", "close_failed"
    cancelRequested,         \* the run was cancelled from outside
    hidFeed,                 \* the reports the raw device has yet to deliver
    devFeed,                 \* the events each input device has yet to deliver
    faulty,                  \* device calls may fail
    cancellable,             \* the run may be cancelled from outside
    ended,                   \* why each task ended
    ungrabbed,               \* each reader's own ungrab(): "no", "ok", "failed"
    startUngrabs,            \* the devices start()'s finally called ungrab() on
    lastData,                \* what the last h.read returned
    decoded,                 \* the reports handed to the decoder, and the tick after each
    evals,                   \* the fields the last tick evaluated
    calls,                   \* the callback calls of the last tick
    fired,                   \* the on_change calls of the last tick
    events,                  \* every on_change call of the run
    delivered,               \* the last value on_change was called with, per field
    seen,                    \* the fields of the merged views of the earlier ticks
    staleTicked              \* the bucket-owning readers an earlier tick found ended

vars == << device_paths, general_buttons_state, pwr_buttons_state, listeners, devices,
           prev_state, startPc, pc, dev, h, cancelRequested, hidFeed, devFeed, faulty,
           cancellable, ended, ungrabbed, startUngrabs, lastData, decoded, evals, calls, fired,
           events, delivered, seen, staleTicked >>

SeqToSet(s) == {s[i] : i \in 1..Len(s)}

\* self.tasks, in the order start() appends them
Tasks == device_paths \o <<HID, AGG>>

TaskIndex(t) == CHOOSE i \in 1..Len(Tasks) : Tasks[i] = t

\* the event loop runs the first step of each task in the order gather got them
EarlierStarted(t) == \A i \in 1..(TaskIndex(t) - 1) : pc[Tasks[i]] # "new"

AllStarted == \A t \in SeqToSet(Tasks) : pc[t] # "new"

NoneStarted == \A t \in SeqToSet(Tasks) : pc[t] = "new"

\* __init__: self.device_paths = device_paths or self.DEVICE_PATHS
InitDevicePaths(arg) == IF arg = <<>> THEN DEVICE_PATHS ELSE arg

InitScenario(sc) ==
    /\ device_paths = InitDevicePaths(sc.paths)
    /\ general_buttons_state = EmptyDict
    /\ pwr_buttons_state = EmptyDict
    /\ listeners = <<>>
    /\ devices = <<>>
    /\ prev_state = EmptyDict
    /\ startPc = "idle"
    /\ pc = [t \in SeqToSet(InitDevicePaths(sc.paths)) \cup {HID, AGG} |-> "new"]
    /\ dev = [p \in SeqToSet(InitDevicePaths(sc.paths)) |-> "none"]
    /\ h = "none"
    /\ cancelRequested = FALSE
    /\ hidFeed = sc.hid
    /\ devFeed = [p \in SeqToSet(InitDevicePaths(sc.paths)) |-> sc.keys[p]]
    /\ faulty = sc.faulty
    /\ cancellable = sc.cancellable
    /\ ended = [t \in SeqToSet(InitDevicePaths(sc.paths)) \cup {HID, AGG} |-> "no"]
    /\ ungrabbed = [p \in SeqToSet(InitDevicePaths(sc.paths)) |-> "no"]
    /\ startUngrabs = <<>>
    /\ lastData = <<>>
    /\ decoded = <<>>
    /\ evals = <<>>
    /\ calls = <<>>
    /\ fired = <<>>
    /\ events = <<>>
    /\ delivered = EmptyDict
    /\ seen = {}
    /\ staleTicked = {}

Init == \E sc \in Scenarios : InitScenario(sc)

(***************************************************************************)
(* The dispatcher's registration and the lifecycle controller.             *)
(***************************************************************************)
ghostVars == << staleTicked, cancellable, ended, ungrabbed, startUngrabs, lastData, decoded,
                evals, calls, fired,
                events, delivered, seen >>

\* add_listener(callback), before the run
AddListener(kind) ==
    /\ startPc = "idle"
    /\ Len(listeners) < MaxListeners
    /\ listeners' = Append(listeners, kind)
    /\ UNCHANGED << device_paths, general_buttons_state, pwr_buttons_state, devices,
                    prev_state, startPc, pc, dev, h, cancelRequested, hidFeed, devFeed,
                    faulty >>
    /\ UNCHANGED ghostVars

\* start(): the tasks are built and gather() is awaited
Start ==
    /\ startPc = "idle"
    /\ startPc' = "running"
    /\ UNCHANGED << device_paths, general_buttons_state, pwr_buttons_state, listeners,
                    devices, prev_state, pc, dev, h, cancelRequested, hidFeed, devFeed,
                    faulty >>
    /\ UNCHANGED ghostVars

\* a step of a task that has not been cancelled
MayStep(t) ==
    /\ startPc = "running"
    /\ ~cancelRequested
    /\ pc[t] # "done"
    /\ IF pc[t] = "new" THEN EarlierStarted(t) ELSE AllStarted

\* the results ungrab() and close() may have: they may raise when devices may fail
ReleaseOutcomes == IF faulty THEN {TRUE, FALSE} ELSE {TRUE}

\* a reader's failure that leaves the reader running
ReaderFailedKeepsRunning(tasks, t) == tasks

\* a reader's failure that ends every task
ReaderFailedAll(tasks, t) == [u \in DOMAIN tasks |-> "done"]

\* the except and finally clauses of a reader end that reader's task, and only it
ReaderFailed(tasks, t) == [tasks EXCEPT ![t] = "done"]

\* the finally clause of _read_device_events: ungrab() if the device was made,
\* an exception of ungrab() is caught and printed
ReaderUngrab(device, ok) ==
    IF device = "none" THEN "no" ELSE IF ok THEN "ok" ELSE "failed"

\* the finally clause of _read_hidraw: close() if the handle was made
HidClose(handle, ok) ==
    IF handle = "none" THEN "none" ELSE IF ok THEN "closed" ELSE "close_failed"

(***************************************************************************)
(* _read_device_events(device_path, buttons_state)                         *)
(***************************************************************************)
\* InputDevice(path), grab(), self.devices.append(device), up to the first read
DevOpen(p) ==
    /\ p \in DOMAIN dev
    /\ MayStep(p)
    /\ pc[p] = "new"
    /\ \/ /\ dev' = [dev EXCEPT ![p] = "grabbed"]
          /\ devices' = Append(devices, p)
          /\ pc' = [pc EXCEPT ![p] = "running"]
          /\ UNCHANGED << ended, ungrabbed >>
       \/ /\ faulty                       \* InputDevice(path) raises: device stays None
          /\ pc' = ReaderFailed(pc, p)
          /\ ended' = [ended EXCEPT ![p] = "error"]
          /\ ungrabbed' = [ungrabbed EXCEPT ![p] = ReaderUngrab("none", TRUE)]
          /\ UNCHANGED << dev, devices >>
       \/ /\ faulty                       \* grab() raises: the device is not recorded
          /\ \E ok \in ReleaseOutcomes :
                ungrabbed' = [ungrabbed EXCEPT ![p] = ReaderUngrab("open", ok)]
          /\ dev' = [dev EXCEPT ![p] = "open"]
          /\ pc' = ReaderFailed(pc, p)
          /\ ended' = [ended EXCEPT ![p] = "error"]
          /\ UNCHANGED devices
    /\ UNCHANGED << device_paths, general_buttons_state, pwr_buttons_state, listeners,
                    prev_state, startPc, h, cancelRequested, hidFeed, devFeed, faulty >>
    /\ UNCHANGED << staleTicked, cancellable, startUngrabs, lastData, decoded, evals, calls, fired,
                    events, delivered, seen >>

\* every reader is handed the power/volume bucket
HasBucketAny(p) == TRUE

\* start(): bs = self.pwr_buttons_state if path == self.PWR_DEVICE_PATH else None
HasBucket(p) == p = PWR_DEVICE_PATH

\* the body of the loop without the test of the event's type
HandleEventAnyType(buttons_state, hasBucket, event) ==
    IF hasBucket /\ event.code \in {114, 115, 116}
    THEN DictSet(buttons_state,
                 IF event.code = 114 THEN "VOLUME_DOWN"
                 ELSE IF event.code = 115 THEN "VOLUME_UP" ELSE "POWER",
                 PyBool(event.keystate # 0))
    ELSE buttons_state

\* a btn_map that names the power key like a field of the raw report
BtnMapCollide(code) ==
    IF code = 114 THEN "VOLUME_DOWN" ELSE IF code = 115 THEN "VOLUME_UP" ELSE "A"

\* btn_map
BtnMap(code) ==
    IF code = 114 THEN "VOLUME_DOWN" ELSE IF code = 115 THEN "VOLUME_UP" ELSE "POWER"

\* the body of the async for loop: the bucket after one event
HandleEvent(buttons_state, hasBucket, event) ==
    IF hasBucket /\ event.type = "EV_KEY" /\ event.code \in {114, 115, 116}
    THEN DictSet(buttons_state, BtnMap(event.code), PyBool(event.keystate # 0))
    ELSE buttons_state

DevEvent(p) ==
    /\ p \in DOMAIN dev
    /\ MayStep(p)
    /\ pc[p] = "running"
    /\ devFeed[p] # <<>>
    /\ pwr_buttons_state' = HandleEvent(pwr_buttons_state, HasBucket(p), Head(devFeed[p]))
    /\ devFeed' = [devFeed EXCEPT ![p] = Tail(@)]
    /\ UNCHANGED << device_paths, general_buttons_state, listeners, devices, prev_state,
                    startPc, pc, dev, h, cancelRequested, hidFeed, faulty >>
    /\ UNCHANGED ghostVars

\* the read loop raises: except Exception prints, finally ungrabs
DevReadError(p) ==
    /\ p \in DOMAIN dev
    /\ faulty
    /\ MayStep(p)
    /\ pc[p] = "running"
    /\ pc' = ReaderFailed(pc, p)
    /\ ended' = [ended EXCEPT ![p] = "error"]
    /\ \E ok \in ReleaseOutcomes :
          ungrabbed' = [ungrabbed EXCEPT ![p] = ReaderUngrab(dev[p], ok)]
    /\ UNCHANGED << device_paths, general_buttons_state, pwr_buttons_state, listeners,
                    devices, prev_state, startPc, dev, h, cancelRequested, hidFeed,
                    devFeed, faulty >>
    /\ UNCHANGED << staleTicked, cancellable, startUngrabs, lastData, decoded, evals, calls, fired,
                    events, delivered, seen >>

(***************************************************************************)
(* _read_hidraw()                                                          *)
(***************************************************************************)
\* h = hid.Device(path=...), up to the first read
HidOpen ==
    /\ MayStep(HID)
    /\ pc[HID] = "new"
    /\ \/ /\ h' = "open"
          /\ pc' = [pc EXCEPT ![HID] = "running"]
          /\ UNCHANGED ended
       \/ /\ faulty                       \* hid.Device raises: h stays None
          /\ h' = HidClose("none", TRUE)
          /\ pc' = ReaderFailed(pc, HID)
          /\ ended' = [ended EXCEPT ![HID] = "error"]
    /\ UNCHANGED << device_paths, general_buttons_state, pwr_buttons_state, listeners,
                    devices, prev_state, startPc, dev, cancelRequested, hidFeed, devFeed,
                    faulty >>
    /\ UNCHANGED << staleTicked, cancellable, ungrabbed, startUngrabs, lastData, decoded, evals,
                    calls, fired, events, delivered, seen >>

\* if not data or len(data) < 12: sleep and continue
SkipsDecoding(data) == Len(data) = 0 \/ Len(data) < 12

\* break instead of continue: the skipped iteration ends the reader
AfterSkipBreak(tasks) == [tasks EXCEPT ![HID] = "done"]

\* the task's state after an iteration that skipped decoding: continue
AfterSkip(tasks) == tasks

\* the number of events the input devices have yet to deliver
RECURSIVE EventsLeftFrom(_, _, _)
EventsLeftFrom(i, paths, feed) ==
    IF i > Len(paths) THEN 0
    ELSE Len(feed[paths[i]]) + EventsLeftFrom(i + 1, paths, feed)

EventsLeft == EventsLeftFrom(1, device_paths, devFeed)

\* one iteration of the while loop: the read, the length test, the decoding
HidRead ==
    /\ MayStep(HID)
    /\ pc[HID] = "running"
    /\ hidFeed # <<>>
    /\ LET data == Head(hidFeed)
           r    == decode_steamdeck_report(data, general_buttons_state)
       IN  /\ hidFeed' = Tail(hidFeed)
           /\ lastData' = data
           /\ IF SkipsDecoding(data)
              THEN /\ pc' = AfterSkip(pc)
                   /\ UNCHANGED << general_buttons_state, h, ended, decoded >>
              ELSE /\ general_buttons_state' = r.bs
                   /\ decoded' = Append(decoded, [data |-> data, ticked |-> FALSE,
                                                  eventsLeft |-> 0])
                   /\ IF r.raised       \* except Exception prints, finally closes
                      THEN /\ pc' = ReaderFailed(pc, HID)
                           /\ ended' = [ended EXCEPT ![HID] = "decode_error"]
                           /\ \E ok \in ReleaseOutcomes : h' = HidClose(h, ok)
                      ELSE UNCHANGED << pc, ended, h >>
    /\ UNCHANGED << device_paths, pwr_buttons_state, listeners, devices, prev_state,
                    startPc, dev, cancelRequested, devFeed, faulty >>
    /\ UNCHANGED << staleTicked, cancellable, ungrabbed, startUngrabs, evals, calls, fired, events,
                    delivered, seen >>

\* h.read raises: except hid.HIDException prints, finally closes
HidReadError ==
    /\ faulty
    /\ MayStep(HID)
    /\ pc[HID] = "running"
    /\ pc' = ReaderFailed(pc, HID)
    /\ ended' = [ended EXCEPT ![HID] = "error"]
    /\ \E ok \in ReleaseOutcomes : h' = HidClose(h, ok)
    /\ UNCHANGED << device_paths, general_buttons_state, pwr_buttons_state, listeners,
                    devices, prev_state, startPc, dev, cancelRequested, hidFeed, devFeed,
                    faulty >>
    /\ UNCHANGED << staleTicked, cancellable, ungrabbed, startUngrabs, lastData, decoded, evals,
                    calls, fired, events, delivered, seen >>

(***************************************************************************)
(* _process_inputs()                                                       *)
(***************************************************************************)
\* the tick that follows a decoded report is noted on the report
MarkTicked(log, left) ==
    IF log # <<>> /\ ~log[Len(log)].ticked
    THEN [log EXCEPT ![Len(log)] = [@ EXCEPT !.ticked = TRUE, !.eventsLeft = left]]
    ELSE log

\* the readers that own a bucket and have ended
EndedOwners == {t \in {HID, PWR_DEVICE_PATH} \cap DOMAIN ended : ended[t] # "no"}

\* the on_change calls of a tick, with the number of reports decoded before them,
\* the bucket owners that had ended, and those an earlier tick found ended
Tagged(f, gen, over, stale) ==
    [i \in 1..Len(f) |-> [key |-> f[i].key, value |-> f[i].value, gen |-> gen,
                          over |-> over, stale |-> stale]]

\* an exception of a callback leaves on_change and _process_inputs: the task ends
AfterTick(tasks, raised) == [tasks EXCEPT ![AGG] = IF raised THEN "done" ELSE "running"]

\* one iteration of the while loop, up to its sleep
Tick ==
    /\ MayStep(AGG)
    /\ LET r == process_inputs(general_buttons_state, pwr_buttons_state, listeners,
                               prev_state, delivered, seen)
       IN  /\ prev_state' = r.prev_state
           /\ delivered' = r.delivered
           /\ evals' = r.evals
           /\ calls' = r.calls
           /\ fired' = r.fired
           /\ events' = events \o Tagged(r.fired, Len(decoded), EndedOwners, staleTicked)
           /\ pc' = AfterTick(pc, r.raised)
           /\ ended' = [ended EXCEPT ![AGG] = IF r.raised THEN "callback_error" ELSE @]
    /\ seen' = seen \cup DictKeys(general_buttons_state) \cup DictKeys(pwr_buttons_state)
    /\ decoded' = MarkTicked(decoded, EventsLeft)
    /\ UNCHANGED << device_paths, general_buttons_state, pwr_buttons_state, listeners,
                    devices, startPc, dev, h, cancelRequested, hidFeed, devFeed, faulty >>
    /\ staleTicked' = staleTicked \cup EndedOwners
    /\ UNCHANGED << cancellable, ungrabbed, startUngrabs, lastData >>

(***************************************************************************)
(* start(): cancellation and the finally clause                            *)
(***************************************************************************)
\* the task awaiting gather() is cancelled: gather cancels every child
Cancel ==
    /\ cancellable
    /\ startPc = "running"
    /\ ~cancelRequested
    /\ NoneStarted \/ AllStarted
    /\ cancelRequested' = TRUE
    /\ UNCHANGED << device_paths, general_buttons_state, pwr_buttons_state, listeners,
                    devices, prev_state, startPc, pc, dev, h, hidFeed, devFeed, faulty >>
    /\ UNCHANGED ghostVars

\* CancelledError is raised in a child at its await (or before its first step):
\* no except clause catches it, the finally clause runs
TaskCancelled(t) ==
    /\ startPc = "running"
    /\ cancelRequested
    /\ t \in DOMAIN pc
    /\ pc[t] # "done"
    /\ pc' = [pc EXCEPT ![t] = "done"]
    /\ ended' = [ended EXCEPT ![t] = "cancelled"]
    /\ IF t \in DOMAIN dev
       THEN \E ok \in ReleaseOutcomes :
               ungrabbed' = [ungrabbed EXCEPT ![t] = ReaderUngrab(dev[t], ok)]
       ELSE UNCHANGED ungrabbed
    /\ IF t = HID
       THEN \E ok \in ReleaseOutcomes : h' = HidClose(h, ok)
       ELSE UNCHANGED h
    /\ UNCHANGED << device_paths, general_buttons_state, pwr_buttons_state, listeners,
                    devices, prev_state, startPc, dev, cancelRequested, hidFeed, devFeed,
                    faulty >>
    /\ UNCHANGED << staleTicked, cancellable, startUngrabs, lastData, decoded, evals, calls, fired,
                    events, delivered, seen >>

\* for device in self.devices: try: device.ungrab() except Exception: pass
RECURSIVE ReleaseFrom(_, _, _, _)
ReleaseFrom(i, devs, fails, attempted) ==
    IF i > Len(devs) THEN attempted
    ELSE ReleaseFrom(i + 1, devs, fails, Append(attempted, devs[i]))

\* no try/except around ungrab(): the first failing ungrab ends the loop
ReleaseAllAbort(devs, fails) ==
    LET failing == {i \in 1..Len(devs) : devs[i] \in fails}
        last == IF failing = {} THEN Len(devs)
                ELSE CHOOSE i \in failing : \A j \in failing : i <= j
    IN  SubSeq(devs, 1, last)

ReleaseAll(devs, fails) == ReleaseFrom(1, devs, fails, <<>>)

\* gather() is over when every task is: the finally clause of start() runs
StartExit ==
    /\ startPc = "running"
    /\ \A t \in DOMAIN pc : pc[t] = "done"
    /\ startPc' = "exited"
    /\ \E fails \in (IF faulty THEN SUBSET SeqToSet(devices) ELSE {{}}) :
          startUngrabs' = ReleaseAll(devices, fails)
    /\ UNCHANGED << device_paths, general_buttons_state, pwr_buttons_state, listeners,
                    devices, prev_state, pc, dev, h, cancelRequested, hidFeed, devFeed,
                    faulty >>
    /\ UNCHANGED << staleTicked, cancellable, ended, ungrabbed, lastData, decoded, evals, calls,
                    fired, events, delivered, seen >>

Next ==
    \/ \E kind \in ListenerKinds : AddListener(kind)
    \/ Start
    \/ \E p \in DOMAIN dev : DevOpen(p)
    \/ \E p \in DOMAIN dev : DevEvent(p)
    \/ \E p \in DOMAIN dev : DevReadError(p)
    \/ HidOpen
    \/ HidRead
    \/ HidReadError
    \/ Tick
    \/ Cancel
    \/ \E t \in DOMAIN pc : TaskCancelled(t)
    \/ StartExit

Spec == Init /\ [][Next]_vars

(***************************************************************************)
(* Readings of the logs, used by the properties below.                     *)
(***************************************************************************)
IsAxis(key) == IsStick(key) \/ IsPad(key)

\* the threshold the specification gives each axis class
AxisThreshold(key) == IF IsStick(key) THEN 200 ELSE 100

\* the value last dispatched for the field of evaluation e: 0 (false) if none
LastDispatched(e) == IF e.had THEN e.last.n ELSE 0

AggregatorAlive == pc[AGG] # "done"

\* the on_change calls made while n reports had been decoded, as (key, value)
EventsOfGen(n) ==
    LET idx == {i \in 1..Len(events) : events[i].gen = n}
        pos[i \in 0..Len(events)] ==
            IF i = 0 THEN <<>>
            ELSE IF i \in idx
                 THEN Append(pos[i - 1], [key |-> events[i].key, value |-> events[i].value])
                 ELSE pos[i - 1]
    IN  pos[Len(events)]

\* the values on_change was called with for one field, in order
ValuesOf(key) ==
    LET pos[i \in 0..Len(events)] ==
            IF i = 0 THEN <<>>
            ELSE IF events[i].key = key THEN Append(pos[i - 1], events[i].value.n)
                 ELSE pos[i - 1]
    IN  pos[Len(events)]

\* the LEFT_STICK_X values of the reports decoded so far
StickXOf(log) == [i \in 1..Len(log) |-> UnpackH(log[i].data, 48)]

\* C1: an axis field is dispatched in a tick iff |curr - prev| exceeds its
\* threshold (200 stick, 100 pad), prev being the value last dispatched for it
\* (0 if none); a dispatched value becomes the new prev; and stick values
\* 50, 90, 150, 210, each seen by a tick, fire once, at 210.
C1_AxisDebounce ==
    /\ \A i \in 1..Len(evals) :
          LET e == evals[i]
          IN  IsAxis(e.key) =>
                /\ e.fired <=> (Abs(e.curr.n - LastDispatched(e)) > AxisThreshold(e.key))
                /\ (e.fired /\ AggregatorAlive) =>
                      /\ DictHas(prev_state, e.key)
                      /\ DictGet(prev_state, e.key, PyInt(0)) = e.curr
    /\ ( /\ Len(decoded) = 4
         /\ StickXOf(decoded) = <<50, 90, 150, 210>>
         /\ \A i \in 1..4 : decoded[i].ticked )
       => ValuesOf("LEFT_STICK_X") = <<210>>

\* C1 witness: the four stick values were each seen by a tick and 210 alone fired
C1_Witness ==
    /\ Len(decoded) = 4
    /\ StickXOf(decoded) = <<50, 90, 150, 210>>
    /\ \A i \in 1..4 : decoded[i].ticked
    /\ ValuesOf("LEFT_STICK_X") = <<210>>
    /\ \E i \in 1..Len(evals) :
          evals[i].key = "LEFT_STICK_X" /\ evals[i].fired /\ evals[i].curr.n = 210

\* C2: a digital field is dispatched in a tick iff its merged value differs from
\* the value last dispatched for it (false if none); no threshold applies.
C2_DigitalFires ==
    \A i \in 1..Len(evals) :
       LET e == evals[i]
       IN  ~IsAxis(e.key) =>
             /\ e.curr.isbool
             /\ e.fired <=> (e.curr.n # LastDispatched(e))

\* C2 witness: a release (true -> false) of A was dispatched
C2_Witness ==
    \E i \in 1..Len(evals) :
       /\ evals[i].key = "A" /\ evals[i].fired
       /\ evals[i].had /\ evals[i].last.n = 1 /\ evals[i].curr.n = 0

\* the callback calls a tick owes: for each fired change in turn, every listener
\* once, in registration order
CallsOwed ==
    LET n == Len(listeners)
    IN  [j \in 1..(Len(fired) * n) |->
            [cb |-> ((j - 1) % n) + 1,
             key |-> fired[((j - 1) \div n) + 1].key,
             value |-> fired[((j - 1) \div n) + 1].value]]

CallsMade == [j \in 1..Len(calls) |->
                [cb |-> calls[j].cb, key |-> calls[j].key, value |-> calls[j].value]]

\* C3: a callback that raises prevents neither the remaining callbacks of the
\* same change nor the later ticks of the aggregator.
C3_CallbackFailureIsolated ==
    /\ \A j \in 1..Len(fired) : \A c \in 1..Len(listeners) :
          \E k \in 1..Len(calls) : calls[k].cb = c /\ calls[k].key = fired[j].key
    /\ ended[AGG] # "callback_error"

\* C4: every fired change calls each of the N listeners exactly once, in
\* registration order, before the next field is evaluated.
C4_AllListenersInOrder == CallsMade = CallsOwed

\* C5: a device-open or device-read failure of one reader ends that reader only:
\* the step changes no other task, bucket or announced state, and a task only
\* ever ends by its own failure or by the cancellation of the run.
C5_ReaderFailureContained ==
    /\ [][\A t \in DOMAIN pc :
             (ended[t] = "no" /\ ended'[t] = "error") =>
                /\ \A u \in DOMAIN pc \ {t} : pc'[u] = pc[u] /\ ended'[u] = ended[u]
                /\ UNCHANGED << general_buttons_state, pwr_buttons_state, prev_state,
                                cancelRequested, startPc, events >>]_vars
    /\ [](\A t \in DOMAIN pc :
             /\ pc[t] = "done" <=> ended[t] # "no"
             /\ ended[t] = "cancelled" => cancelRequested
             /\ ended[t] = "callback_error" => t = AGG
             /\ ended[t] = "decode_error" => t = HID
             /\ ended[t] = "error" => t # AGG)

\* C5 witness: the raw-report reader failed at open, before any tick, and a
\* POWER change of the keyed-event reader was dispatched all the same
C5_Witness ==
    /\ ended[HID] = "error"
    /\ h = "none"
    /\ pc[E5] = "running"
    /\ \E i \in 1..Len(fired) : fired[i].key = "POWER"

\* C6: when start() has exited, every task has ended (cancellation reached each
\* of them), ungrab was attempted by each reader that made its device and by
\* start() for every recorded device, whatever ungrab did, and the raw handle,
\* if opened, was closed.
C6_ReleaseOnExit ==
    startPc = "exited" =>
       /\ \A t \in DOMAIN pc : pc[t] = "done" /\ ended[t] # "no"
       /\ \A p \in DOMAIN dev : dev[p] # "none" => ungrabbed[p] \in {"ok", "failed"}
       /\ \A p \in DOMAIN dev : dev[p] = "grabbed" => p \in SeqToSet(devices)
       /\ startUngrabs = devices
       /\ h # "open"

\* C6 witness: a cancelled run exited with two grabbed devices, one ungrab failed
C6_Witness ==
    /\ startPc = "exited"
    /\ cancelRequested
    /\ Len(devices) = 2
    /\ startUngrabs = devices
    /\ ungrabbed[E5] = "failed"
    /\ h \in {"closed", "close_failed"}

\* C7: a report of 12 to 15 bytes is never fatal to the raw-report reader.
C7_ShortReportNotFatal ==
    (Len(lastData) >= 12 /\ Len(lastData) <= 15) => ended[HID] # "decode_error"

\* C8: a read of fewer than 12 bytes (or of nothing) leaves the controller
\* bucket as it was, dispatches nothing, and the reader reads on.
C8_ShortReadSkipped ==
    [][(hidFeed # <<>> /\ hidFeed' = Tail(hidFeed) /\ Len(Head(hidFeed)) < 12) =>
          /\ general_buttons_state' = general_buttons_state
          /\ pc'[HID] = "running"
          /\ h' = "open"
          /\ UNCHANGED << prev_state, events, fired, calls, decoded, ended >>]_vars

\* C8 witness: an 8-byte read was skipped with a filled bucket, the reader runs
C8_Witness ==
    /\ Len(lastData) = 8
    /\ general_buttons_state # EmptyDict
    /\ pc[HID] = "running"

\* C9: a field evaluated for the first time is dispatched only if its value
\* differs from its class default (false, 0) and, for an axis, by more than
\* the threshold.
C9_NoInitialEvents ==
    \A i \in 1..Len(evals) :
       LET e == evals[i]
       IN  (e.first /\ e.fired) =>
              /\ e.curr.n # 0
              /\ IsAxis(e.key) => Abs(e.curr.n) > AxisThreshold(e.key)

\* C9 witness: the first tick over an all-released, all-zero report fired nothing
C9_Witness ==
    /\ Len(evals) = Len(Layout)
    /\ \A i \in 1..Len(evals) : evals[i].first /\ evals[i].curr.n = 0 /\ ~evals[i].fired
    /\ events = <<>>

\* reports i and i+1 of the decoding log are full-length and differ only in
\* byte 8, which goes from 0x00 to 0x80
ByteEightPair(i) ==
    LET a == decoded[i].data
        b == decoded[i + 1].data
    IN  /\ Len(a) = 64 /\ Len(b) = 64
        /\ Byte(a, 8) = 0 /\ Byte(b, 8) = 128
        /\ \A j \in 0..63 : j # 8 => Byte(a, j) = Byte(b, j)

\* a tick followed each of the two reports, and no keyed event was read since
\* the tick that followed the first
TickedPair(i) ==
    /\ decoded[i].ticked /\ decoded[i + 1].ticked
    /\ EventsLeft = decoded[i].eventsLeft

\* C10 as amended: after the second report of such a pair the aggregator
\* dispatches exactly one change, ("A", true).
C10_EndToEnd ==
    \A i \in 1..(Len(decoded) - 1) :
       (ByteEightPair(i) /\ TickedPair(i)) =>
          EventsOfGen(i + 1) = << [key |-> "A", value |-> PyBool(TRUE)] >>

\* C10 witness: UP is held in both reports, and ("A", true) alone follows the
\* second, delivered to both listeners
C10_Witness ==
    /\ Len(decoded) = 2
    /\ listeners = <<"ok", "ok">>
    /\ fired = << [key |-> "A", value |-> PyBool(TRUE)] >>
    /\ CallsMade = CallsOwed
    /\ ByteEightPair(1) /\ TickedPair(1)
    /\ Byte(decoded[1].data, 9) = 1
    /\ EventsOfGen(2) = << [key |-> "A", value |-> PyBool(TRUE)] >>

\* C10 as stated: over the run of the two reports, ("A", true) is the only event.
C10_OnlyEventIsA ==
    ( /\ Len(decoded) = 2 /\ ByteEightPair(1) /\ TickedPair(1)
      /\ pwr_buttons_state = EmptyDict
      /\ listeners = <<"ok", "ok">> ) =>
       [i \in 1..Len(events) |-> [key |-> events[i].key, value |-> events[i].value]]
          = << [key |-> "A", value |-> PyBool(TRUE)] >>

\* C11: at every callback call of a tick, prev_state (the announced state)
\* already holds the value being delivered for the field.
C11_AnnouncedBeforeCall ==
    \A k \in 1..Len(calls) : calls[k].annHad /\ calls[k].ann = calls[k].value

\* C12: in every state prev_state (the announced state) has exactly the fields
\* that were delivered to the listeners, each with the value delivered last.
C12_AnnouncedIsDelivered ==
    /\ DictKeys(prev_state) = DictKeys(delivered)
    /\ \A key \in DictKeys(delivered) :
          DictGet(prev_state, key, PyInt(0)) = DictGet(delivered, key, PyInt(0))

\* the fields of the layout that are axes
AxisKeys == {Layout[j].key : j \in {n \in 1..Len(Layout) : Layout[n].kind = "axis"}}

\* the value report i of the decoding log gives an axis field
AxisOf(key, i) ==
    LET j == CHOOSE n \in 1..Len(Layout) : Layout[n].key = key
    IN  FieldValue(Layout[j], decoded[i].data).n

\* the value last dispatched for a field while at most n reports had been
\* decoded: 0 if none
AnnouncedAt(key, n) ==
    LET idx == {i \in 1..Len(events) : events[i].key = key /\ events[i].gen <= n}
    IN  IF idx = {} THEN 0
        ELSE events[CHOOSE i \in idx : \A j \in idx : j <= i].value.n

\* a change of the field was dispatched after report n and before report n + 1
FiredAt(key, n) == \E i \in 1..Len(events) : events[i].key = key /\ events[i].gen = n

\* reports i, i+1, i+2 are full-length, a tick followed each, and the field
\* makes two moves in the same direction, each under the threshold
SmallMoves(key, i) ==
    LET m1 == AxisOf(key, i + 1) - AxisOf(key, i)
        m2 == AxisOf(key, i + 2) - AxisOf(key, i + 1)
    IN  /\ \A j \in i..(i + 2) : Len(decoded[j].data) = 64 /\ decoded[j].ticked
        /\ (m1 > 0 /\ m2 > 0) \/ (m1 < 0 /\ m2 < 0)
        /\ Abs(m1) < AxisThreshold(key) /\ Abs(m2) < AxisThreshold(key)

\* C13 as amended: each of two consecutive small moves of an axis in the same
\* direction fires iff it takes the value more than the threshold away from the
\* value last dispatched (0 if none): moves that stay within the threshold of
\* that value never fire, and moves that add up beyond it do.
C13_SmallMovesDebounce ==
    \A key \in AxisKeys : \A i \in 1..(Len(decoded) - 2) :
       (SmallMoves(key, i) /\ AggregatorAlive) =>
          \A n \in {i + 1, i + 2} :
             FiredAt(key, n) <=>
                Abs(AxisOf(key, n) - AnnouncedAt(key, n - 1)) > AxisThreshold(key)

\* C13 witness: the stick went 90, 150, 210 with 0 announced, and 210 fired
C13_Witness ==
    /\ Len(decoded) >= 4
    /\ SmallMoves("LEFT_STICK_X", 2)
    /\ AggregatorAlive
    /\ AxisOf("LEFT_STICK_X", 2) = 90 /\ AxisOf("LEFT_STICK_X", 4) = 210
    /\ AnnouncedAt("LEFT_STICK_X", 3) = 0
    /\ ~FiredAt("LEFT_STICK_X", 3)
    /\ FiredAt("LEFT_STICK_X", 4)
    /\ listeners # <<>>

\* C13 as stated: two consecutive moves of an axis in the same direction, each
\* under the threshold, never fire a change.
C13_SmallMovesNeverFire ==
    \A key \in AxisKeys : \A i \in 1..(Len(decoded) - 2) :
       SmallMoves(key, i) => ~FiredAt(key, i + 1) /\ ~FiredAt(key, i + 2)

\* the field names of the two buckets
PwrKeys == {"VOLUME_DOWN", "VOLUME_UP", "POWER"}

LayoutKeys == {Layout[j].key : j \in 1..Len(Layout)}

\* C14: every field has one writer: a step changes the power/volume bucket only
\* by reading an event of the PWR_DEVICE_PATH device and the controller bucket
\* only by reading a raw report, neither of them changes prev_state or
\* dispatches, a step of the aggregator changes no bucket, and no field name is
\* in both buckets.
C14_SingleWriter ==
    /\ [][ /\ pwr_buttons_state' # pwr_buttons_state =>
                /\ PWR_DEVICE_PATH \in DOMAIN devFeed
                /\ devFeed[PWR_DEVICE_PATH] # <<>>
                /\ devFeed' = [devFeed EXCEPT ![PWR_DEVICE_PATH] = Tail(@)]
                /\ UNCHANGED << general_buttons_state, hidFeed, prev_state, events >>
           /\ general_buttons_state' # general_buttons_state =>
                /\ hidFeed # <<>>
                /\ hidFeed' = Tail(hidFeed)
                /\ UNCHANGED << pwr_buttons_state, devFeed, prev_state, events >>
           /\ (prev_state' # prev_state \/ events' # events \/ evals' # evals) =>
                UNCHANGED << general_buttons_state, pwr_buttons_state >> ]_vars
    /\ [](/\ DictKeys(pwr_buttons_state) \subseteq PwrKeys
          /\ DictKeys(general_buttons_state) \subseteq LayoutKeys
          /\ DictKeys(pwr_buttons_state) \cap DictKeys(general_buttons_state) = {})

\* C14 witness: both buckets were written and a change of each was dispatched
C14_Witness ==
    /\ DictHas(pwr_buttons_state, "POWER")
    /\ DictHas(general_buttons_state, "A")
    /\ DictHas(prev_state, "POWER")
    /\ DictHas(prev_state, "A")

\* the value the two buckets give a field
BucketValue(key) ==
    IF DictHas(pwr_buttons_state, key)
    THEN DictGet(pwr_buttons_state, key, PyInt(0))
    ELSE DictGet(general_buttons_state, key, PyInt(0))

\* C15: a tick evaluates each field once, against the values the two buckets
\* hold when the tick starts: every value it compares, dispatches and hands to a
\* callback is the bucket's value of that moment, the buckets are the same when
\* the tick ends, and unless a callback raised every field of both buckets is
\* evaluated.
C15_TickSnapshot ==
    [][(evals' # evals \/ events' # events) =>
          /\ UNCHANGED << general_buttons_state, pwr_buttons_state >>
          /\ \A i \in 1..Len(evals') :
                /\ evals'[i].key \in
                      DictKeys(general_buttons_state) \cup DictKeys(pwr_buttons_state)
                /\ evals'[i].curr = BucketValue(evals'[i].key)
                /\ \A j \in 1..Len(evals') : evals'[j].key = evals'[i].key => j = i
          /\ \A i \in 1..Len(fired') : fired'[i].value = BucketValue(fired'[i].key)
          /\ \A i \in 1..Len(calls') : calls'[i].value = BucketValue(calls'[i].key)
          /\ pc'[AGG] # "done" =>
                {evals'[i].key : i \in 1..Len(evals')} =
                   DictKeys(general_buttons_state) \cup DictKeys(pwr_buttons_state)]_vars

\* C15 witness: a tick evaluated the fields of both buckets and dispatched a
\* change of each to a callback
C15_Witness ==
    /\ Len(evals) = Len(Layout) + 1
    /\ DictKeys(pwr_buttons_state) = {"POWER"}
    /\ \E i \in 1..Len(calls) : calls[i].key = "POWER"
    /\ \E i \in 1..Len(calls) : calls[i].key = "A"
    /\ pc[AGG] = "running"

(***************************************************************************)
(* The decoder on its own: decode_steamdeck_report applied to a report, to *)
(* the same report again, and to the report with one bit of one of the     *)
(* bytes 8..14 flipped, the dict being the one _read_hidraw hands it.      *)
(***************************************************************************)
\* bit k of a byte
BitOf(byte, k) == (byte \div (2 ^ k)) % 2 = 1

\* the byte with bit k flipped
FlipBit(byte, k) == IF BitOf(byte, k) THEN byte - 2 ^ k ELSE byte + 2 ^ k

\* the report with bit b of byte o flipped
FlipReport(data, o, b) ==
    [i \in 1..Len(data) |-> IF i = o + 1 THEN FlipBit(data[i], b) ELSE data[i]]

\* the reports the flips start from: all zero, every button held with the axes
\* at their ends, and a mixed one
DecodeBases ==
    { Report(64, <<>>),
      Report(64, [i \in 8..23 |-> 255] @@ [i \in 48..55 |-> IF i % 2 = 0 THEN 0 ELSE 128]),
      Report(64, (8 :> 165) @@ (9 :> 90) @@ (10 :> 66) @@ (11 :> 4) @@ (12 :> 255)
                 @@ (13 :> 130) @@ (14 :> 0) @@ AxisBytes(16, -300) @@ AxisBytes(48, 1234)
                 @@ AxisBytes(54, -1)) }

FlippedBytes == 8..14

InitDecode ==
    \E base \in DecodeBases : \E o \in FlippedBytes : \E b \in 0..7 :
       InitScenario(Scenario(<<E5>>, << base, base, FlipReport(base, o, b) >>,
                             NoEvents, FALSE, FALSE))

\* decode_steamdeck_report(data, self.general_buttons_state) on the next report
DecodeReport ==
    /\ hidFeed # <<>>
    /\ ~SkipsDecoding(Head(hidFeed))
    /\ general_buttons_state' =
          decode_steamdeck_report(Head(hidFeed), general_buttons_state).bs
    /\ decoded' = Append(decoded, [data |-> Head(hidFeed), ticked |-> FALSE,
                                   eventsLeft |-> 0])
    /\ lastData' = Head(hidFeed)
    /\ hidFeed' = Tail(hidFeed)
    /\ UNCHANGED << device_paths, pwr_buttons_state, listeners, devices, prev_state,
                    startPc, pc, dev, h, cancelRequested, devFeed, faulty >>
    /\ UNCHANGED << staleTicked, cancellable, ended, ungrabbed, startUngrabs, evals, calls, fired,
                    events, delivered, seen >>

NextDecode == DecodeReport

SpecDecode == InitDecode /\ [][NextDecode]_vars

\* two full-length reports that differ in bit b of byte o and nowhere else
OneBitApart(a, c, o, b) ==
    /\ Len(a) = 64 /\ Len(c) = 64
    /\ \A j \in 0..63 : j # o => Byte(a, j) = Byte(c, j)
    /\ \A k \in 0..7 : (BitOf(Byte(a, o), k) # BitOf(Byte(c, o), k)) <=> k = b

\* the digital fields the layout maps to bit b of byte o
MappedTo(o, b) ==
    {Layout[j].key : j \in {n \in 1..Len(Layout) :
                               Layout[n].kind = "bit" /\ Layout[n].off = o
                                  /\ Layout[n].bit = b}}

\* C16: when a full-length report is decoded after one that differs from it in
\* exactly one bit b of a byte o in 8..14 and (o, b) is a mapped position, the
\* two decodings hold the same fields and differ in the value of exactly one,
\* the digital field mapped to (o, b); decoding the bytes just decoded leaves
\* the mapping as it is, and a decoding does not depend on what was decoded
\* before.
C16_OneBitOneField ==
    [][decoded' # decoded =>
          LET before == IF decoded = <<>> THEN <<>> ELSE decoded[Len(decoded)].data
              now    == decoded'[Len(decoded')].data
          IN  /\ before = now => general_buttons_state' = general_buttons_state
              /\ general_buttons_state' = decode_steamdeck_report(now, EmptyDict).bs
              /\ \A o \in FlippedBytes : \A b \in 0..7 :
                    (OneBitApart(before, now, o, b) /\ MappedTo(o, b) # {}) =>
                       /\ Cardinality(MappedTo(o, b)) = 1
                       /\ DictKeys(general_buttons_state') = DictKeys(general_buttons_state)
                       /\ \A key \in DictKeys(general_buttons_state) :
                             (DictGet(general_buttons_state', key, PyInt(0))
                                 # DictGet(general_buttons_state, key, PyInt(0)))
                             <=> key \in MappedTo(o, b)]_vars

\* C16 witness: the mixed report was decoded twice, then with bit 6 of byte 10
\* cleared: LEFT_STICK_PRESS is released, A and the stick value are as before
C16_Witness ==
    /\ Len(decoded) = 3
    /\ decoded[1].data = decoded[2].data
    /\ OneBitApart(decoded[2].data, decoded[3].data, 10, 6)
    /\ MappedTo(10, 6) = {"LEFT_STICK_PRESS"}
    /\ DictGet(general_buttons_state, "LEFT_STICK_PRESS", PyInt(7)) = PyBool(FALSE)
    /\ DictGet(general_buttons_state, "A", PyInt(7)) = PyBool(TRUE)
    /\ DictGet(general_buttons_state, "LEFT_STICK_X", PyInt(7)) = PyInt(1234)

\* the field a recognized key code is written to
KeyName(code) ==
    CASE code = 114 -> "VOLUME_DOWN"
      [] code = 115 -> "VOLUME_UP"
      [] code = 116 -> "POWER"

\* C17: when the reader of PWR_DEVICE_PATH takes an event, a key event with
\* code 114, 115 or 116 sets VOLUME_DOWN, VOLUME_UP or POWER to
\* (keystate != 0) and leaves the other fields of the bucket as they are; any
\* other event leaves the bucket unchanged.
C17_KeyedEvents ==
    [][( /\ PWR_DEVICE_PATH \in DOMAIN devFeed
         /\ devFeed[PWR_DEVICE_PATH] # <<>>
         /\ devFeed'[PWR_DEVICE_PATH] = Tail(devFeed[PWR_DEVICE_PATH]) ) =>
          LET e == Head(devFeed[PWR_DEVICE_PATH])
          IN  IF e.type = "EV_KEY" /\ e.code \in {114, 115, 116}
              THEN /\ DictKeys(pwr_buttons_state') =
                         DictKeys(pwr_buttons_state) \cup {KeyName(e.code)}
                   /\ DictGet(pwr_buttons_state', KeyName(e.code), PyInt(7))
                         = PyBool(e.keystate # 0)
                   /\ \A key \in DictKeys(pwr_buttons_state) \ {KeyName(e.code)} :
                         DictGet(pwr_buttons_state', key, PyInt(7))
                            = DictGet(pwr_buttons_state, key, PyInt(7))
              ELSE pwr_buttons_state' = pwr_buttons_state]_vars

\* C17 witness: a held VOLUME_DOWN key (keystate 2) was written as true, and an
\* EV_ABS event with code 116 and a key event with code 30 were read after it
\* and left the bucket alone
C17_Witness ==
    /\ device_paths = <<E5>>
    /\ pc[E5] = "running"
    /\ devFeed[E5] = <<>>
    /\ pwr_buttons_state = << [k |-> "VOLUME_DOWN", v |-> PyBool(TRUE)] >>
    /\ Len(decoded) = 2 /\ Byte(decoded[1].data, 9) = 1
    /\ DictHas(prev_state, "VOLUME_DOWN")

\* C18: an event read from a device other than PWR_DEVICE_PATH is read from a
\* grabbed device and changes neither bucket, and when device_paths does not
\* hold PWR_DEVICE_PATH the power/volume bucket stays empty and no VOLUME_DOWN,
\* VOLUME_UP or POWER change is ever dispatched or announced.
C18_OnlyPwrDeviceWrites ==
    /\ [][\A p \in DOMAIN devFeed :
             (p # PWR_DEVICE_PATH /\ devFeed'[p] # devFeed[p]) =>
                /\ dev[p] = "grabbed"
                /\ p \in SeqToSet(devices)
                /\ UNCHANGED << general_buttons_state, pwr_buttons_state >>]_vars
    /\ [](PWR_DEVICE_PATH \notin SeqToSet(device_paths) =>
             /\ pwr_buttons_state = EmptyDict
             /\ \A i \in 1..Len(events) : events[i].key \notin PwrKeys
             /\ DictKeys(prev_state) \cap PwrKeys = {})

\* C18 witness: with device_paths = [event2], the power and volume-down
\* presses of event2 were read, and the tick after them dispatched A only
C18_Witness ==
    /\ device_paths = <<E2>>
    /\ dev[E2] = "grabbed"
    /\ devFeed[E2] = <<>>
    /\ pwr_buttons_state = EmptyDict
    /\ Len(decoded) = 1 /\ decoded[1].ticked /\ decoded[1].eventsLeft = 0
    /\ Len(events) = 1 /\ events[1].key = "A"

\* the reader that owns the bucket of a field
OwnerOf(key) == IF key \in PwrKeys THEN PWR_DEVICE_PATH ELSE HID

\* the events of a field dispatched by ticks that found its reader ended
EventsSinceEnd(key) ==
    {i \in 1..Len(events) : events[i].key = key /\ OwnerOf(key) \in events[i].over}

\* C19: once a reader has ended no step changes its bucket, each field of the
\* bucket is dispatched at most once by the ticks that find the reader ended,
\* and never by a tick later than the first of them.
C19_StaleAfterReaderEnds ==
    /\ [][/\ ended[HID] # "no" => general_buttons_state' = general_buttons_state
          /\ (PWR_DEVICE_PATH \in DOMAIN ended /\ ended[PWR_DEVICE_PATH] # "no") =>
                pwr_buttons_state' = pwr_buttons_state]_vars
    /\ [](\A i \in 1..Len(events) : OwnerOf(events[i].key) \notin events[i].stale)
    /\ [](\A key \in PwrKeys \cup LayoutKeys : Cardinality(EventsSinceEnd(key)) <= 1)

\* C19 witness: both readers ended on a read error, the raw reader after a
\* report with A held and the keyed-event reader after a POWER press; the first
\* tick after them dispatched both fields, a later tick ran, the session goes on
C19_Witness ==
    /\ ended[HID] = "error"
    /\ ended[E5] = "error"
    /\ EventsSinceEnd("A") # {}
    /\ EventsSinceEnd("POWER") # {}
    /\ staleTicked = {HID, E5}
    /\ startPc = "running"
    /\ AggregatorAlive

\* the digital fields of the two buckets
DigitalKeys == (LayoutKeys \ AxisKeys) \cup PwrKeys

\* C20: a tick dispatches a digital field only if its value differs from the
\* value the tick before saw for it, whatever the field did between the two
\* ticks; and the values dispatched for a digital field alternate, starting
\* with true.
C20_LevelSampled ==
    /\ [][\A i \in (Len(events) + 1)..Len(events') : \A j \in 1..Len(evals) :
             (evals[j].key = events'[i].key /\ events'[i].key \in DigitalKeys) =>
                evals[j].curr.n # events'[i].value.n]_vars
    /\ [](\A key \in DigitalKeys :
             LET v == ValuesOf(key)
             IN  \A i \in 1..Len(v) : v[i] = (IF i % 2 = 1 THEN 1 ELSE 0))

\* C20 witness: A was released at one tick, pressed and released again before
\* the next, and never dispatched, while the press and the release of POWER were
\* each seen by a tick and dispatched in turn
C20_Witness ==
    /\ Len(decoded) = 3
    /\ decoded[1].ticked /\ ~decoded[2].ticked /\ decoded[3].ticked
    /\ Byte(decoded[1].data, 8) = 0
    /\ Byte(decoded[2].data, 8) = 128
    /\ Byte(decoded[3].data, 8) = 0
    /\ ValuesOf("A") = <<>>
    /\ ValuesOf("POWER") = <<1, 0>>
    /\ listeners # <<>>
    /\ AggregatorAlive

====
